---- MODULE Spec2Model ----
(***************************************************************************)
(* Model of OrchestratorScriptCustomEventsComponentPanel, the "Custom      *)
(* Events" component panel of the Orchestrator editor plug-in.             *)
(*                                                                         *)
(* The panel is an adapter between a host tree widget and the              *)
(* Orchestration that owns the custom events.  Strings are modelled as     *)
(* sequences of character codes so that String::is_valid_identifier and    *)
(* PackedStringArray::sort are computed rather than assumed.               *)
(***************************************************************************)
EXTENDS Integers, Sequences, FiniteSets, TLC

\* Largest number of custom events the modelled orchestration may hold.
MaxEvents == 2

\* ContextMenuIds (custom_events_panel.h)
CM_RENAME_EVENT == 0
CM_REMOVE_EVENT == 1

\* The names the user may type or pass: "", "1", "B", "a", "a-".
\* Code points: '-' 45, '1' 49, 'B' 66, 'a' 97.
Names == { <<>>, <<49>>, <<66>>, <<97>>, <<97, 45>> }

\* The name obtained from a null TreeItem; it names no event.
NoName == <<0>>

\* "No signals defined"
NoSignalsText ==
    <<78, 111, 32, 115, 105, 103, 110, 97, 108, 115, 32,
      100, 101, 102, 105, 110, 101, 100>>

\* Key codes delivered by the host.
KeyCodes == {"KEY_F2", "KEY_DELETE", "KEY_A"}

\* Input events: a non-key event, or a key event with pressed/echo/keycode.
NonKeyEvent == [isKey |-> FALSE, pressed |-> FALSE, echo |-> FALSE, keycode |-> "KEY_A"]
InputEvents ==
    {NonKeyEvent} \cup
    [isKey : {TRUE}, pressed : BOOLEAN, echo : BOOLEAN, keycode : KeyCodes]

VARIABLES
    events,     \* the orchestration's custom event names
    tree,       \* the children of the tree's root, in display order
    selected,   \* index in tree of the selected item, 0 when none
    last        \* what the last operation was given, returned and called

vars == <<events, tree, selected, last>>

----------------------------------------------------------------------------
(* Strings *)

IsDigit(c) == c >= 48 /\ c <= 57
IsAlpha(c) == (c >= 65 /\ c <= 90) \/ (c >= 97 /\ c <= 122)

\* String::is_valid_identifier
is_valid_identifier(s) ==
    /\ Len(s) > 0
    /\ ~IsDigit(s[1])
    /\ \A i \in 1..Len(s) : IsAlpha(s[i]) \/ IsDigit(s[i]) \/ s[i] = 95

\* String::operator< : code point order, a proper prefix sorts first.
RECURSIVE StringLess(_, _)
StringLess(a, b) ==
    IF Len(b) = 0 THEN FALSE
    ELSE IF Len(a) = 0 THEN TRUE
    ELSE IF a[1] # b[1] THEN a[1] < b[1]
    ELSE StringLess(Tail(a), Tail(b))

RECURSIVE Insert(_, _)
Insert(x, s) ==
    IF Len(s) = 0 THEN <<x>>
    ELSE IF StringLess(x, s[1]) THEN <<x>> \o s
    ELSE <<s[1]>> \o Insert(x, Tail(s))

\* PackedStringArray::sort
RECURSIVE sort(_)
sort(s) == IF Len(s) = 0 THEN <<>> ELSE Insert(s[1], sort(Tail(s)))

----------------------------------------------------------------------------
(* Orchestration *)

\* The orders in which get_custom_event_names may list a set of names.
Orderings(S) ==
    { f \in [1..Cardinality(S) -> S] : \A i, j \in 1..Cardinality(S) : i # j => f[i] # f[j] }

\* Ref<OScriptSignal>
NullRef == [valid |-> FALSE, name |-> NoName]
SignalRef(n) == [valid |-> TRUE, name |-> n]

\* Orchestration::get_custom_event / find_custom_event
find_custom_event(evs, n) == IF n \in evs THEN SignalRef(n) ELSE NullRef
get_custom_event(evs, n) == find_custom_event(evs, n)

\* Orchestration::create_custom_event : the reference returned and the new set.
create_custom_event(evs, n) ==
    IF n \in evs
    THEN [ref |-> NullRef, events |-> evs]
    ELSE [ref |-> SignalRef(n), events |-> evs \cup {n}]

\* Orchestration::rename_custom_user_event : the boolean returned and the new set.
rename_custom_user_event(evs, old, new) ==
    IF old \in evs /\ new \notin evs
    THEN [ret |-> TRUE, events |-> (evs \ {old}) \cup {new}]
    ELSE [ret |-> FALSE, events |-> evs]

\* Orchestration::remove_custom_event
remove_custom_event(evs, n) == evs \ {n}

----------------------------------------------------------------------------
(* Tree *)

\* OrchestratorScriptComponentPanel::_create_item
create_item(text, icon) ==
    [text |-> text, selectable |-> TRUE, icon |-> icon, placeholder |-> FALSE]

\* The child created by update() when there are no events.
PlaceholderItem ==
    [text |-> NoSignalsText, selectable |-> FALSE, icon |-> "", placeholder |-> TRUE]

\* OrchestratorScriptComponentPanel::_get_tree_item_name ; item 0 is the null item.
get_tree_item_name(t, i) == IF i = 0 THEN NoName ELSE t[i].text

\* DictionaryUtils::from_method(signal->get_method_info())
from_method(ref) == [name |-> ref.name]

EmptyDictionary == [k \in {} |-> TRUE]

----------------------------------------------------------------------------
(* What an operation reports *)

NoCall ==
    [op |-> "none", old |-> NoName, name |-> NoName, hasItem |-> FALSE,
     event |-> NonKeyEvent, result |-> FALSE, notices |-> <<>>,
     renameCalls |-> <<>>, edited |-> <<>>, payload |-> EmptyDictionary,
     editRequested |-> FALSE, confirmRequested |-> FALSE, accepted |-> FALSE,
     baseUpdated |-> FALSE]

Init ==
    /\ events = {}
    /\ tree = <<>>
    /\ selected = 0
    /\ last = NoCall

----------------------------------------------------------------------------
(* The handlers, as functions of what they read *)

\* _get_existing_names
get_existing_names(evs) == evs

\* _show_notification("An event with the name '...' already exists.")
NoticeExists == "name already exists"
\* _show_invalid_name("event", false)
NoticeInvalid == "invalid name"

\* Mutants of _handle_item_renamed.
\* Without the existing-name check.
handle_item_renamed_no_exists_check(evs, old, new) ==
    IF ~is_valid_identifier(new)
    THEN [result |-> FALSE, notices |-> <<NoticeInvalid>>, renameCalls |-> <<>>,
          events |-> evs]
    ELSE LET r == rename_custom_user_event(evs, old, new)
         IN  [result |-> r.ret, notices |-> <<>>,
              renameCalls |-> <<[old |-> old, new |-> new, ret |-> r.ret]>>,
              events |-> r.events]

\* Without the identifier check.
handle_item_renamed_no_identifier_check(evs, old, new) ==
    IF new \in evs
    THEN [result |-> FALSE, notices |-> <<NoticeExists>>, renameCalls |-> <<>>,
          events |-> evs]
    ELSE LET r == rename_custom_user_event(evs, old, new)
         IN  [result |-> r.ret, notices |-> <<>>,
              renameCalls |-> <<[old |-> old, new |-> new, ret |-> r.ret]>>,
              events |-> r.events]

\* Returning true whatever rename_custom_user_event returned.
handle_item_renamed_returns_true(evs, old, new) ==
    IF new \in evs
    THEN [result |-> FALSE, notices |-> <<NoticeExists>>, renameCalls |-> <<>>,
          events |-> evs]
    ELSE IF ~is_valid_identifier(new)
    THEN [result |-> FALSE, notices |-> <<NoticeInvalid>>, renameCalls |-> <<>>,
          events |-> evs]
    ELSE LET r == rename_custom_user_event(evs, old, new)
         IN  [result |-> TRUE, notices |-> <<>>,
              renameCalls |-> <<[old |-> old, new |-> new, ret |-> r.ret]>>,
              events |-> r.events]

\* With the identifier check made before the existing-name check.
handle_item_renamed_identifier_first(evs, old, new) ==
    IF ~is_valid_identifier(new)
    THEN [result |-> FALSE, notices |-> <<NoticeInvalid>>, renameCalls |-> <<>>,
          events |-> evs]
    ELSE IF new \in evs
    THEN [result |-> FALSE, notices |-> <<NoticeExists>>, renameCalls |-> <<>>,
          events |-> evs]
    ELSE LET r == rename_custom_user_event(evs, old, new)
         IN  [result |-> r.ret, notices |-> <<>>,
              renameCalls |-> <<[old |-> old, new |-> new, ret |-> r.ret]>>,
              events |-> r.events]

\* _handle_item_renamed : result, notices shown, calls of
\* rename_custom_user_event and the orchestration's events afterwards.
handle_item_renamed(evs, old, new) ==
    IF new \in get_existing_names(evs)
    THEN [result |-> FALSE, notices |-> <<NoticeExists>>, renameCalls |-> <<>>,
          events |-> evs]
    ELSE IF ~is_valid_identifier(new)
    THEN [result |-> FALSE, notices |-> <<NoticeInvalid>>, renameCalls |-> <<>>,
          events |-> evs]
    ELSE LET r == rename_custom_user_event(evs, old, new)
         IN  [result |-> r.ret, notices |-> <<>>,
              renameCalls |-> <<[old |-> old, new |-> new, ret |-> r.ret]>>,
              events |-> r.events]

\* _handle_add_new_item
handle_add_new_item(evs, n) ==
    LET c == create_custom_event(evs, n)
    IN  [result |-> c.ref.valid, events |-> c.events]

\* _handle_item_selected / _handle_item_activated : the resources passed to
\* EditorInterface::edit_resource.
handle_item_activated(evs, t, i) == <<get_custom_event(evs, get_tree_item_name(t, i))>>
handle_item_selected(evs, t, sel) == <<get_custom_event(evs, get_tree_item_name(t, sel))>>

\* Mutant of _handle_remove: removes the selected item's event, not p_item's.
handle_remove_selected(evs, t, sel, i) ==
    remove_custom_event(evs, get_tree_item_name(t, sel))

\* _handle_remove
handle_remove(evs, t, sel, i) == remove_custom_event(evs, get_tree_item_name(t, i))

\* Mutant of _handle_drag_data: without the signal.is_valid() check.
handle_drag_data_no_valid_check(evs, t, sel) ==
    IF sel # 0
    THEN [type |-> "signal",
          signals |-> from_method(find_custom_event(evs, get_tree_item_name(t, sel)))]
    ELSE EmptyDictionary

\* _handle_drag_data
handle_drag_data(evs, t, sel) ==
    IF sel # 0
    THEN LET signal == find_custom_event(evs, get_tree_item_name(t, sel))
         IN  IF signal.valid
             THEN [type |-> "signal", signals |-> from_method(signal)]
             ELSE EmptyDictionary
    ELSE EmptyDictionary

\* _handle_context_menu : whether _edit_selected_tree_item and
\* _confirm_removal(_tree->get_selected()) are called.
handle_context_menu(id) ==
    [editRequested |-> (id = CM_RENAME_EVENT), confirmRequested |-> (id = CM_REMOVE_EVENT)]

NoFlow == [editRequested |-> FALSE, confirmRequested |-> FALSE]

\* Mutant of _handle_tree_gui_input: without the is_echo() check.
handle_tree_gui_input_echo(ev) ==
    IF ev.isKey /\ ev.pressed
    THEN IF ev.keycode = "KEY_F2"
         THEN [flow |-> handle_context_menu(CM_RENAME_EVENT), accepted |-> TRUE]
         ELSE IF ev.keycode = "KEY_DELETE"
         THEN [flow |-> handle_context_menu(CM_REMOVE_EVENT), accepted |-> TRUE]
         ELSE [flow |-> NoFlow, accepted |-> FALSE]
    ELSE [flow |-> NoFlow, accepted |-> FALSE]

\* _handle_tree_gui_input : the flow started and whether accept_event is called.
handle_tree_gui_input(ev) ==
    IF ev.isKey /\ ev.pressed /\ ~ev.echo
    THEN IF ev.keycode = "KEY_F2"
         THEN [flow |-> handle_context_menu(CM_RENAME_EVENT), accepted |-> TRUE]
         ELSE IF ev.keycode = "KEY_DELETE"
         THEN [flow |-> handle_context_menu(CM_REMOVE_EVENT), accepted |-> TRUE]
         ELSE [flow |-> NoFlow, accepted |-> FALSE]
    ELSE [flow |-> NoFlow, accepted |-> FALSE]

\* _clear_tree : the root is left without children.
clear_tree(t) == <<>>

\* Mutants of update.
\* Without signal_names.sort().
update_unsorted(t, names) ==
    LET filled == [i \in 1..Len(names) |-> create_item(names[i], "MemberSignal")]
    IN  IF Len(filled) = 0
        THEN [tree |-> <<PlaceholderItem>>, baseUpdated |-> FALSE]
        ELSE [tree |-> filled, baseUpdated |-> TRUE]

\* Without _clear_tree().
update_no_clear(t, names) ==
    LET signal_names == IF Len(names) # 0 THEN sort(names) ELSE names
        filled == t \o
                  [i \in 1..Len(signal_names) |-> create_item(signal_names[i], "MemberSignal")]
    IN  IF Len(filled) = 0
        THEN [tree |-> <<PlaceholderItem>>, baseUpdated |-> FALSE]
        ELSE [tree |-> filled, baseUpdated |-> TRUE]

\* Without the return after the placeholder is created.
update_always_base(t, names) ==
    LET signal_names == IF Len(names) # 0 THEN sort(names) ELSE names
        filled == [i \in 1..Len(signal_names) |-> create_item(signal_names[i], "MemberSignal")]
    IN  IF Len(filled) = 0
        THEN [tree |-> <<PlaceholderItem>>, baseUpdated |-> TRUE]
        ELSE [tree |-> filled, baseUpdated |-> TRUE]

\* update : names is what get_custom_event_names returned.  The children of
\* the root afterwards and whether OrchestratorScriptComponentPanel::update ran.
update(t, names) ==
    LET cleared == clear_tree(t)
        signal_names == IF Len(names) # 0 THEN sort(names) ELSE names
        filled == cleared \o
                  [i \in 1..Len(signal_names) |-> create_item(signal_names[i], "MemberSignal")]
    IN  IF Len(filled) = 0
        THEN [tree |-> <<PlaceholderItem>>, baseUpdated |-> FALSE]
        ELSE [tree |-> filled, baseUpdated |-> TRUE]

----------------------------------------------------------------------------
(* Operations *)

SelectedName == get_tree_item_name(tree, selected)

\* The user selects a selectable item of the tree.
SelectItem(i) ==
    /\ i \in 1..Len(tree)
    /\ tree[i].selectable
    /\ selected' = i
    /\ last' = [NoCall EXCEPT !.op = "select", !.hasItem = TRUE,
                              !.name = get_tree_item_name(tree, i)]
    /\ UNCHANGED <<events, tree>>

HandleAddNewItem(n) ==
    /\ n \in events \/ Cardinality(events) < MaxEvents
    /\ LET r == handle_add_new_item(events, n)
       IN  /\ events' = r.events
           /\ last' = [NoCall EXCEPT !.op = "add", !.name = n, !.result = r.result]
    /\ UNCHANGED <<tree, selected>>

HandleItemSelected ==
    /\ last' = [NoCall EXCEPT !.op = "selected", !.hasItem = (selected # 0),
                              !.name = SelectedName,
                              !.edited = handle_item_selected(events, tree, selected)]
    /\ UNCHANGED <<events, tree, selected>>

HandleItemActivated(i) ==
    /\ i \in 0..Len(tree)
    /\ last' = [NoCall EXCEPT !.op = "activated", !.hasItem = (i # 0),
                              !.name = get_tree_item_name(tree, i),
                              !.edited = handle_item_activated(events, tree, i)]
    /\ UNCHANGED <<events, tree, selected>>

HandleItemRenamed(old, new) ==
    /\ LET r == handle_item_renamed(events, old, new)
       IN  /\ events' = r.events
           /\ last' = [NoCall EXCEPT !.op = "rename", !.old = old, !.name = new,
                                     !.result = r.result, !.notices = r.notices,
                                     !.renameCalls = r.renameCalls]
    /\ UNCHANGED <<tree, selected>>

HandleRemove(i) ==
    /\ i \in 0..Len(tree)
    /\ events' = handle_remove(events, tree, selected, i)
    /\ last' = [NoCall EXCEPT !.op = "remove", !.hasItem = (i # 0),
                              !.name = get_tree_item_name(tree, i)]
    /\ UNCHANGED <<tree, selected>>

HandleDragData ==
    /\ last' = [NoCall EXCEPT !.op = "drag", !.hasItem = (selected # 0),
                              !.name = SelectedName,
                              !.payload = handle_drag_data(events, tree, selected)]
    /\ UNCHANGED <<events, tree, selected>>

HandleContextMenu(id) ==
    /\ LET f == handle_context_menu(id)
       IN  last' = [NoCall EXCEPT !.op = "menu", !.hasItem = (selected # 0),
                                  !.name = SelectedName,
                                  !.editRequested = f.editRequested,
                                  !.confirmRequested = f.confirmRequested]
    /\ UNCHANGED <<events, tree, selected>>

HandleTreeGuiInput(ev) ==
    /\ LET r == handle_tree_gui_input(ev)
       IN  last' = [NoCall EXCEPT !.op = "key", !.hasItem = (selected # 0),
                                  !.name = SelectedName, !.event = ev,
                                  !.editRequested = r.flow.editRequested,
                                  !.confirmRequested = r.flow.confirmRequested,
                                  !.accepted = r.accepted]
    /\ UNCHANGED <<events, tree, selected>>

Update ==
    /\ \E names \in Orderings(events) :
          LET r == update(tree, names)
          IN  /\ tree' = r.tree
              /\ last' = [NoCall EXCEPT !.op = "update", !.baseUpdated = r.baseUpdated]
    /\ selected' = 0
    /\ UNCHANGED events

Next ==
    \/ \E i \in 1..(MaxEvents + 1) : SelectItem(i)
    \/ \E n \in Names : HandleAddNewItem(n)
    \/ HandleItemSelected
    \/ \E i \in 0..(MaxEvents + 1) : HandleItemActivated(i)
    \/ \E old \in Names, new \in Names : HandleItemRenamed(old, new)
    \/ \E i \in 0..(MaxEvents + 1) : HandleRemove(i)
    \/ HandleDragData
    \/ \E id \in {CM_RENAME_EVENT, CM_REMOVE_EVENT} : HandleContextMenu(id)
    \/ \E ev \in InputEvents : HandleTreeGuiInput(ev)
    \/ Update

Spec == Init /\ [][Next]_vars

----------------------------------------------------------------------------
(* Properties *)

\* The texts of the event items of a tree, in display order.
DisplayedNames(t) ==
    LET idx == {i \in 1..Len(t) : ~t[i].placeholder}
    IN  IF idx = 1..Len(t) THEN [i \in 1..Len(t) |-> t[i].text]
        ELSE SelectSeq([i \in 1..Len(t) |-> IF t[i].placeholder THEN NoName ELSE t[i].text],
                       LAMBDA n : n # NoName)

\* s lists exactly the names of S, each once, in increasing order.
IsSortedListingOf(s, S) ==
    /\ Len(s) = Cardinality(S)
    /\ {s[i] : i \in 1..Len(s)} = S
    /\ \A i, j \in 1..Len(s) : i < j => StringLess(s[i], s[j])

KeyDown(e) == e.isKey /\ e.pressed /\ ~e.echo

\* C1: a rename whose new name is among the orchestration's event names at
\* the time of the call (the old name included) returns false, shows the
\* "name already exists" notice and does not call rename_custom_user_event.
C1_DuplicateRejected ==
    [][ (last'.op = "rename" /\ last'.name \in events)
        => /\ last'.result = FALSE
           /\ last'.notices = <<NoticeExists>>
           /\ last'.renameCalls = <<>>
           /\ events' = events ]_vars

C1_Witness ==
    /\ last.op = "rename"
    /\ last.name \in events
    /\ last.old = last.name
    /\ last.result = FALSE
    /\ last.notices = <<NoticeExists>>

\* C2: a rename whose new name is not a valid identifier returns false and
\* does not call rename_custom_user_event, whatever the old name and the
\* events are.
C2_InvalidRejected ==
    (last.op = "rename" /\ ~is_valid_identifier(last.name))
    => (last.result = FALSE /\ last.renameCalls = <<>>)

C2_Witness ==
    /\ last.op = "rename"
    /\ ~is_valid_identifier(last.name)
    /\ last.name \notin events
    /\ last.old \in events
    /\ last.result = FALSE
    /\ last.notices = <<NoticeInvalid>>

\* C3: a rename whose new name is a valid identifier and not among the event
\* names calls rename_custom_user_event exactly once with (old, new), shows
\* no notice and returns what that call returned: true when the event now
\* carries the new name, false when the rename failed.
C3_Delegated ==
    [][ (last'.op = "rename" /\ is_valid_identifier(last'.name) /\ last'.name \notin events)
        => /\ Len(last'.renameCalls) = 1
           /\ last'.renameCalls[1].old = last'.old
           /\ last'.renameCalls[1].new = last'.name
           /\ last'.renameCalls[1].ret = last'.result
           /\ last'.notices = <<>>
           /\ last'.result = (last'.name \in events') ]_vars

C3_Witness ==
    /\ last.op = "rename"
    /\ Len(last.renameCalls) = 1
    /\ last.renameCalls[1].ret = FALSE
    /\ last.result = FALSE
    /\ events # {}

\* C4: right after update(), with no events the root has exactly one child,
\* the non-selectable "No signals defined" placeholder; with N > 0 events it
\* has exactly N children, one per event name, in increasing order of name,
\* none of them the placeholder.
C4_UpdateRenders ==
    last.op = "update" =>
        IF events = {}
        THEN /\ Len(tree) = 1
             /\ tree[1].placeholder
             /\ tree[1].text = NoSignalsText
             /\ ~tree[1].selectable
        ELSE /\ Len(tree) = Cardinality(events)
             /\ \A i \in 1..Len(tree) : ~tree[i].placeholder /\ tree[i].text # NoSignalsText
             /\ IsSortedListingOf([i \in 1..Len(tree) |-> tree[i].text], events)

C4_Witness ==
    /\ last.op = "update"
    /\ Cardinality(events) = MaxEvents
    /\ Len(tree) = MaxEvents
    /\ tree[1].text = <<>>

C6_DragPayload ==
    last.op = "drag" =>
        LET resolves == selected # 0 /\ get_tree_item_name(tree, selected) \in events
        IN  /\ (DOMAIN last.payload # {}) <=> resolves
            /\ resolves => /\ DOMAIN last.payload = {"type", "signals"}
                           /\ last.payload.type = "signal"

C6_Witness ==
    /\ last.op = "drag"
    /\ selected # 0
    /\ get_tree_item_name(tree, selected) \in events
    /\ DOMAIN last.payload = {"type", "signals"}

\* C7: a key-down, non-echo F2 starts the rename flow and a key-down, non-echo
\* Delete starts the removal flow; an echo, a key-up, another key and a
\* non-key event start neither flow and are not accepted.
C7_KeyShortcuts ==
    last.op = "key" =>
        LET e == last.event
        IN  /\ (KeyDown(e) /\ e.keycode = "KEY_F2")
               => (last.editRequested /\ ~last.confirmRequested)
            /\ (KeyDown(e) /\ e.keycode = "KEY_DELETE")
               => (last.confirmRequested /\ ~last.editRequested)
            /\ ~(KeyDown(e) /\ e.keycode \in {"KEY_F2", "KEY_DELETE"})
               => (~last.editRequested /\ ~last.confirmRequested /\ ~last.accepted)

C7_Witness ==
    /\ last.op = "key"
    /\ last.event.isKey /\ last.event.pressed /\ last.event.echo
    /\ last.event.keycode = "KEY_DELETE"
    /\ ~last.confirmRequested
    /\ ~last.accepted

\* C8: an operation on the selected item, or on an event looked up by name,
\* that finds no item or no event of that name shows no notice, opens no
\* event, yields an empty payload and leaves the orchestration's events and
\* the tree as they were.
C8_SilentNoOp ==
    [][ ( /\ last'.op \in {"selected", "activated", "remove", "drag", "menu", "key"}
          /\ (~last'.hasItem \/ last'.name \notin events) )
        => /\ events' = events
           /\ tree' = tree
           /\ last'.notices = <<>>
           /\ DOMAIN last'.payload = {}
           /\ \A k \in 1..Len(last'.edited) : ~last'.edited[k].valid ]_vars

C8_Witness ==
    /\ last.op = "remove"
    /\ ~last.hasItem
    /\ selected # 0
    /\ get_tree_item_name(tree, selected) \in events

\* C9 as stated: every update() ends with the base class's update().
C9_AlwaysBaseUpdate == last.op = "update" => last.baseUpdated

\* C9 as amended: update() ends with the base class's update() exactly when
\* the orchestration has at least one event; with none it inserts the
\* placeholder and returns without it.
C9_BaseUpdateIffEvents ==
    last.op = "update" => (last.baseUpdated <=> events # {})

C9_Witness ==
    /\ last.op = "update"
    /\ events = {}
    /\ Len(tree) = 1 /\ tree[1].placeholder
    /\ ~last.baseUpdated

\* C10: a rename rejected by validation shows exactly one notice; a new name
\* that is among the event names gets the "name already exists" notice even
\* when it is also no valid identifier, and a new name that is only invalid
\* gets the "invalid name" notice.
C10_OneNotice ==
    [][ (last'.op = "rename" /\ (last'.name \in events \/ ~is_valid_identifier(last'.name)))
        => /\ Len(last'.notices) = 1
           /\ (last'.name \in events) => last'.notices = <<NoticeExists>>
           /\ (last'.name \notin events) => last'.notices = <<NoticeInvalid>> ]_vars

C10_Witness ==
    /\ last.op = "rename"
    /\ last.name \in events
    /\ ~is_valid_identifier(last.name)
    /\ last.notices = <<NoticeExists>>

====
